---- MODULE Spec2Model ----
(***************************************************************************)
(* Model of basilisp.lang.compiler.nodes: the analyzer's immutable syntax  *)
(* tree, its traversal protocol (Node.visit), its location repair          *)
(* (Node.fix_missing_locations) and the derived Python member names of     *)
(* deftype / reify nodes.                                                   *)
(*                                                                         *)
(* Encoding of Python values:                                              *)
(*   - a str is a sequence of one-character strings;                       *)
(*   - an attrs instance is a record with one field per attribute;         *)
(*   - an attribute that may hold None, a Node or a vector of Nodes holds  *)
(*     a tagged value  None / Obj(n) / Vec(s);                             *)
(*   - an Optional[int] is a natural number or NoneInt (Python's None);         *)
(*   - a call returns Obj(n) / None or ends in Raise(exception).           *)
(***************************************************************************)
EXTENDS Integers, Sequences, FiniteSets, TLC

VARIABLES node, form_loc, pc, result, calls

vars == <<node, form_loc, pc, result, calls>>

(***************************************************************************)
(* Bounds of the model.                                                    *)
(***************************************************************************)
MaxItems == 2
MaxArities == 3
MaxFixedArity == 2
MaxMembers == 2

(***************************************************************************)
(* Python values.                                                          *)
(***************************************************************************)
None == [t |-> "None"]
Obj(n) == [t |-> "Node", v |-> n]
Vec(s) == [t |-> "Vec", v |-> s]
Raise(e) == [t |-> "Raise", exc |-> e]
Tuple(s) == [t |-> "Tuple", v |-> s]
NoneInt == -1

RECURSIVE Str(_)
Str(cs) == IF cs = <<>> THEN "" ELSE Head(cs) \o Str(Tail(cs))

RECURSIVE SeqsUpTo(_, _)
SeqsUpTo(S, n) ==
  IF n = 0 THEN {<<>>}
  ELSE LET shorter == SeqsUpTo(S, n - 1)
       IN shorter \cup {Append(s, x) : s \in {q \in shorter : Len(q) = n - 1}, x \in S}

RECURSIVE Flatten(_)
Flatten(ss) == IF ss = <<>> THEN <<>> ELSE Head(ss) \o Flatten(Tail(ss))

(***************************************************************************)
(* basilisp.lang.util.munge, as far as this module uses it: every          *)
(* character that is illegal in a Python identifier is replaced ("-" by    *)
(* "_"), and a name that is a Python reserved word gets a trailing "_".    *)
(***************************************************************************)
PyReserved ==
  { <<"c","l","a","s","s">>, <<"e","l","s","e">>,
    <<"f","i","n","a","l","l","y">> }

MungeChar(c) == IF c = "-" THEN <<"_">> ELSE <<c>>

munge(s) ==
  LET new_str == Flatten([i \in 1..Len(s) |-> MungeChar(s[i])])
  IN IF new_str \in PyReserved THEN new_str \o <<"_">> ELSE new_str

endswith_s(child_attr) == child_attr # <<>> /\ child_attr[Len(child_attr)] = "s"

(***************************************************************************)
(* str(int) as the f-string of DefTypeMethodArity.python_name formats it.  *)
(***************************************************************************)
Digit(d) == <<"0","1","2","3","4","5","6","7","8","9">>[d + 1]

RECURSIVE IntToStr(_)
IntToStr(n) == IF n < 10 THEN <<Digit(n)>> ELSE IntToStr(n \div 10) \o <<Digit(n % 10)>>

(***************************************************************************)
(* The role-tag keywords (names of the keywords, lines 26-51).             *)
(***************************************************************************)
ARITIES == <<"a","r","i","t","i","e","s">>
BODY == <<"b","o","d","y">>
CLASS == <<"c","l","a","s","s">>
LOCAL_KW == <<"l","o","c","a","l">>
STATEMENTS == <<"s","t","a","t","e","m","e","n","t","s">>
RET == <<"r","e","t">>
CLASS_LOCAL == <<"c","l","a","s","s","-","l","o","c","a","l">>
THIS_LOCAL == <<"t","h","i","s","-","l","o","c","a","l">>
FIELDS == <<"f","i","e","l","d","s">>
MEMBERS == <<"m","e","m","b","e","r","s">>
PARAMS == <<"p","a","r","a","m","s">>
EXPR == <<"e","x","p","r">>
EXCEPTION == <<"e","x","c","e","p","t","i","o","n">>
TEST == <<"t","e","s","t">>
THEN_KW == <<"t","h","e","n">>
ELSE_KW == <<"e","l","s","e">>
CATCHES == <<"c","a","t","c","h","e","s">>
FINALLY == <<"f","i","n","a","l","l","y">>
TARGET == <<"t","a","r","g","e","t">>

(***************************************************************************)
(* NodeEnv and the spans it may carry.                                     *)
(***************************************************************************)
NodeEnv(span) ==
  [ns |-> "user", file |-> "<test>",
   line |-> span[1], col |-> span[2], end_line |-> span[3], end_col |-> span[4],
   pos |-> "None", func_ctx |-> "None"]

EnvSpan(env) == <<env.line, env.col, env.end_line, env.end_col>>

NoSpan == <<NoneInt, NoneInt, NoneInt, NoneInt>>
PartialSpan == <<2, 2, 2, NoneInt>>
RootSpan == <<1, 0, 5, 10>>
InnerSpan == <<2, 2, 2, 8>>
OtherSpan == <<7, 1, 7, 4>>
PartialLoc == <<7, NoneInt, 7, 4>>

Spans == {NoSpan, PartialSpan, RootSpan, InnerSpan}
FormLocs == {None, Tuple(RootSpan), Tuple(OtherSpan), Tuple(PartialLoc)}

(***************************************************************************)
(* The node variants (attrs classes) the model builds.  Every constructor  *)
(* takes the attributes that have no default, then the defaulted ones the  *)
(* model varies; the remaining attributes keep their class defaults.       *)
(***************************************************************************)
Const(span) ==
  [op |-> "const", form |-> "nil", type |-> "nil", val |-> "nil", is_literal |-> TRUE,
   env |-> NodeEnv(span), meta |-> None, children |-> <<>>,
   top_level |-> FALSE, raw_forms |-> <<>>]

Binding(name, local, init, span) ==
  [op |-> "binding", form |-> "sym", name |-> name, local |-> local,
   env |-> NodeEnv(span), tag |-> None, arg_id |-> NoneInt, is_variadic |-> FALSE,
   is_assignable |-> FALSE, init |-> init, meta |-> None, children |-> <<>>,
   top_level |-> FALSE, raw_forms |-> <<>>]

Do(statements, ret, span) ==
  [op |-> "do", form |-> "(do)", statements |-> Vec(statements), ret |-> Obj(ret),
   env |-> NodeEnv(span), is_body |-> FALSE, use_var_indirection |-> FALSE,
   children |-> <<STATEMENTS, RET>>, top_level |-> FALSE, raw_forms |-> <<>>]

If(test, then, else_, span) ==
  [op |-> "if", form |-> "(if)", test |-> Obj(test), then |-> Obj(then),
   env |-> NodeEnv(span), else_ |-> Obj(else_), children |-> <<TEST, THEN_KW, ELSE_KW>>,
   top_level |-> FALSE, raw_forms |-> <<>>]

MaybeClass(span) ==
  [op |-> "maybe-class", form |-> "sym", class_ |-> <<"E">>, target |-> "Exception",
   env |-> NodeEnv(span), children |-> <<>>, top_level |-> FALSE, raw_forms |-> <<>>]

Catch(class_, local, body, span) ==
  [op |-> "catch", form |-> "(catch)", class_ |-> Obj(class_), local |-> Obj(local),
   body |-> Obj(body), env |-> NodeEnv(span), children |-> <<CLASS, LOCAL_KW, BODY>>,
   top_level |-> FALSE, raw_forms |-> <<>>]

Throw(exception, cause, span) ==
  [op |-> "throw", form |-> "(throw)", exception |-> Obj(exception), cause |-> cause,
   env |-> NodeEnv(span), children |-> <<EXCEPTION>>,
   top_level |-> FALSE, raw_forms |-> <<>>]

Try(body, catches, children, finally_, span) ==
  [op |-> "try", form |-> "(try)", body |-> Obj(body), catches |-> Vec(catches),
   children |-> children, env |-> NodeEnv(span), finally_ |-> finally_,
   top_level |-> FALSE, raw_forms |-> <<>>]

Yield(expr, children, span) ==
  [op |-> "yield", form |-> "(yield)", expr |-> expr, env |-> NodeEnv(span),
   children |-> children, top_level |-> FALSE, raw_forms |-> <<>>]

YieldDefaultChildren == <<EXPR>>

Yield_expressionless(span) == Yield(None, <<>>, span)

HostField(field, target, span) ==
  [op |-> "host-field", form |-> "(.-field target)", field |-> field,
   target |-> Obj(target), env |-> NodeEnv(span), is_assignable |-> TRUE,
   children |-> <<TARGET>>, top_level |-> FALSE, raw_forms |-> <<>>]

Local(name, local, is_assignable, span) ==
  [op |-> "local", form |-> "sym", name |-> name, local |-> local,
   env |-> NodeEnv(span), is_assignable |-> is_assignable, arg_id |-> NoneInt,
   is_variadic |-> FALSE, children |-> <<>>, top_level |-> FALSE, raw_forms |-> <<>>]

VarRef(var, span) ==
  [op |-> "var", form |-> "sym", var |-> var, env |-> NodeEnv(span),
   return_var |-> FALSE, is_assignable |-> TRUE, is_allow_var_indirection |-> FALSE,
   children |-> <<>>, top_level |-> FALSE, raw_forms |-> <<>>]

(***************************************************************************)
(* The attributes each node class declares (its own and, for the deftype   *)
(* members, those of DefTypeMember), and the class of every NodeOp.        *)
(***************************************************************************)
Await_attrs ==
  { "form", "expr", "env", "children", "op", "top_level", "raw_forms" }

Binding_attrs ==
  { "form", "name", "local", "env", "tag", "arg_id", "is_variadic",
    "is_assignable", "init", "meta", "children", "op", "top_level",
    "raw_forms" }

Catch_attrs ==
  { "form", "class_", "local", "body", "env", "children", "op", "top_level",
    "raw_forms" }

Const_attrs ==
  { "form", "type", "val", "is_literal", "env", "meta", "children", "op",
    "top_level", "raw_forms" }

Def_attrs ==
  { "form", "name", "var", "init", "doc", "env", "tag", "meta", "children",
    "op", "top_level", "raw_forms" }

DefType_attrs ==
  { "form", "name", "interfaces", "fields", "members", "env",
    "verified_abstract", "artificially_abstract", "is_frozen", "use_slots",
    "use_weakref_slot", "meta", "children", "op", "top_level", "raw_forms" }

DefTypeClassMethod_attrs ==
  { "form", "name", "env", "class_local", "params", "fixed_arity", "body",
    "is_variadic", "kwarg_support", "children", "op", "top_level",
    "raw_forms" }

DefTypeMethod_attrs ==
  { "form", "name", "env", "max_fixed_arity", "arities", "is_variadic",
    "children", "op", "top_level", "raw_forms" }

DefTypeMethodArity_attrs ==
  { "form", "name", "params", "fixed_arity", "body", "this_local",
    "loop_id", "env", "is_variadic", "kwarg_support", "children", "op",
    "top_level", "raw_forms" }

DefTypeProperty_attrs ==
  { "form", "name", "env", "this_local", "params", "body", "children", "op",
    "top_level", "raw_forms" }

DefTypeStaticMethod_attrs ==
  { "form", "name", "env", "params", "fixed_arity", "body", "is_variadic",
    "kwarg_support", "children", "op", "top_level", "raw_forms" }

Do_attrs ==
  { "form", "statements", "ret", "env", "is_body", "use_var_indirection",
    "children", "op", "top_level", "raw_forms" }

Fn_attrs ==
  { "form", "max_fixed_arity", "arities", "env", "local", "is_variadic",
    "is_async", "kwarg_support", "inline_fn", "children", "op", "top_level",
    "raw_forms" }

FnArity_attrs ==
  { "form", "loop_id", "params", "fixed_arity", "body", "env", "tag",
    "is_variadic", "children", "op", "top_level", "raw_forms" }

HostCall_attrs ==
  { "form", "method", "target", "args", "kwargs", "env", "children", "op",
    "top_level", "raw_forms" }

HostField_attrs ==
  { "form", "field", "target", "env", "is_assignable", "children", "op",
    "top_level", "raw_forms" }

If_attrs ==
  { "form", "test", "then", "env", "else_", "children", "op", "top_level",
    "raw_forms" }

Import_attrs ==
  { "form", "aliases", "refers", "refer_all", "env", "children", "op",
    "top_level", "raw_forms" }

ImportAlias_attrs ==
  { "form", "name", "alias", "env", "children", "op", "top_level",
    "raw_forms" }

Invoke_attrs ==
  { "form", "fn", "args", "kwargs", "env", "children", "op", "top_level",
    "raw_forms" }

Let_attrs ==
  { "form", "bindings", "body", "env", "children", "op", "top_level",
    "raw_forms" }

LetFn_attrs ==
  { "form", "bindings", "body", "env", "children", "op", "top_level",
    "raw_forms" }

Local_attrs_NotAssignable ==
  { "form", "name", "local", "env", "arg_id", "is_variadic", "children",
    "op", "top_level", "raw_forms" }

Local_attrs ==
  { "form", "name", "local", "env", "is_assignable", "arg_id",
    "is_variadic", "children", "op", "top_level", "raw_forms" }

Loop_attrs ==
  { "form", "bindings", "body", "loop_id", "env", "children", "op",
    "top_level", "raw_forms" }

Map_attrs ==
  { "form", "keys", "vals", "env", "children", "op", "top_level",
    "raw_forms" }

MaybeClass_attrs ==
  { "form", "class_", "target", "env", "children", "op", "top_level",
    "raw_forms" }

MaybeHostForm_attrs ==
  { "form", "class_", "field", "target", "env", "children", "op",
    "top_level", "raw_forms" }

PyDict_attrs ==
  { "form", "keys", "vals", "env", "children", "op", "top_level",
    "raw_forms" }

PyList_attrs ==
  { "form", "items", "env", "children", "op", "top_level", "raw_forms" }

PySet_attrs ==
  { "form", "items", "env", "children", "op", "top_level", "raw_forms" }

PyTuple_attrs ==
  { "form", "items", "env", "children", "op", "top_level", "raw_forms" }

Queue_attrs ==
  { "form", "items", "env", "children", "op", "top_level", "raw_forms" }

Quote_attrs ==
  { "form", "expr", "env", "is_literal", "children", "op", "top_level",
    "raw_forms" }

Recur_attrs ==
  { "form", "exprs", "loop_id", "env", "children", "op", "top_level",
    "raw_forms" }

Reify_attrs ==
  { "form", "interfaces", "members", "env", "verified_abstract",
    "artificially_abstract", "is_frozen", "use_weakref_slot", "meta",
    "children", "op", "top_level", "raw_forms" }

RequireAlias_attrs ==
  { "form", "name", "alias", "env", "children", "op", "top_level",
    "raw_forms" }

Require_attrs ==
  { "form", "aliases", "env", "children", "op", "top_level", "raw_forms" }

Set_attrs ==
  { "form", "items", "env", "children", "op", "top_level", "raw_forms" }

SetBang_attrs ==
  { "form", "target", "val", "env", "children", "op", "top_level",
    "raw_forms" }

Throw_attrs ==
  { "form", "exception", "cause", "env", "children", "op", "top_level",
    "raw_forms" }

Try_attrs ==
  { "form", "body", "catches", "children", "env", "finally_", "op",
    "top_level", "raw_forms" }

VarRef_attrs ==
  { "form", "var", "env", "return_var", "is_assignable",
    "is_allow_var_indirection", "children", "op", "top_level", "raw_forms" }

Vector_attrs ==
  { "form", "items", "env", "children", "op", "top_level", "raw_forms" }

WithMeta_attrs ==
  { "form", "meta", "expr", "env", "children", "op", "top_level",
    "raw_forms" }

Yield_attrs ==
  { "form", "expr", "env", "children", "op", "top_level", "raw_forms" }

NodeKinds ==
  { "await", "binding", "catch", "const", "def", "deftype",
    "deftype-classmethod", "deftype-method", "deftype-method-arity",
    "deftype-property", "deftype-staticmethod", "do", "fn", "fn-arity", "host-call",
    "host-field", "if", "import", "import-alias", "invoke", "let", "letfn",
    "local", "loop", "map", "maybe-class", "maybe-host-form", "py-dict",
    "py-list", "py-set", "py-tuple", "queue", "quote", "recur", "reify",
    "require-alias", "require", "set", "set!", "throw", "try", "var",
    "vector", "with-meta", "yield" }

Attributes(op) ==
  CASE op = "await" -> Await_attrs
    [] op = "binding" -> Binding_attrs
    [] op = "catch" -> Catch_attrs
    [] op = "const" -> Const_attrs
    [] op = "def" -> Def_attrs
    [] op = "deftype" -> DefType_attrs
    [] op = "deftype-classmethod" -> DefTypeClassMethod_attrs
    [] op = "deftype-method" -> DefTypeMethod_attrs
    [] op = "deftype-method-arity" -> DefTypeMethodArity_attrs
    [] op = "deftype-property" -> DefTypeProperty_attrs
    [] op = "deftype-staticmethod" -> DefTypeStaticMethod_attrs
    [] op = "do" -> Do_attrs
    [] op = "fn" -> Fn_attrs
    [] op = "fn-arity" -> FnArity_attrs
    [] op = "host-call" -> HostCall_attrs
    [] op = "host-field" -> HostField_attrs
    [] op = "if" -> If_attrs
    [] op = "import" -> Import_attrs
    [] op = "import-alias" -> ImportAlias_attrs
    [] op = "invoke" -> Invoke_attrs
    [] op = "let" -> Let_attrs
    [] op = "letfn" -> LetFn_attrs
    [] op = "local" -> Local_attrs
    [] op = "loop" -> Loop_attrs
    [] op = "map" -> Map_attrs
    [] op = "maybe-class" -> MaybeClass_attrs
    [] op = "maybe-host-form" -> MaybeHostForm_attrs
    [] op = "py-dict" -> PyDict_attrs
    [] op = "py-list" -> PyList_attrs
    [] op = "py-set" -> PySet_attrs
    [] op = "py-tuple" -> PyTuple_attrs
    [] op = "queue" -> Queue_attrs
    [] op = "quote" -> Quote_attrs
    [] op = "recur" -> Recur_attrs
    [] op = "reify" -> Reify_attrs
    [] op = "require-alias" -> RequireAlias_attrs
    [] op = "require" -> Require_attrs
    [] op = "set" -> Set_attrs
    [] op = "set!" -> SetBang_attrs
    [] op = "throw" -> Throw_attrs
    [] op = "try" -> Try_attrs
    [] op = "var" -> VarRef_attrs
    [] op = "vector" -> Vector_attrs
    [] op = "with-meta" -> WithMeta_attrs
    [] op = "yield" -> Yield_attrs

DefTypeMethodArity(name, params, fixed_arity, body, this_local, is_variadic, span) ==
  [op |-> "deftype-method-arity", form |-> "(arity)", name |-> name,
   params |-> Vec(params), fixed_arity |-> fixed_arity, body |-> Obj(body),
   this_local |-> Obj(this_local), loop_id |-> "loop", env |-> NodeEnv(span),
   is_variadic |-> is_variadic, kwarg_support |-> "None",
   children |-> <<THIS_LOCAL, PARAMS, BODY>>, top_level |-> FALSE, raw_forms |-> <<>>]

DefTypeMethod(name, max_fixed_arity, arities, is_variadic, span) ==
  [op |-> "deftype-method", form |-> "(method)", name |-> name, env |-> NodeEnv(span),
   max_fixed_arity |-> max_fixed_arity, arities |-> Vec(arities),
   is_variadic |-> is_variadic, children |-> <<ARITIES>>,
   top_level |-> FALSE, raw_forms |-> <<>>]

DefTypeClassMethod(name, class_local, params, fixed_arity, body, span) ==
  [op |-> "deftype-classmethod", form |-> "(classmethod)", name |-> name,
   env |-> NodeEnv(span), class_local |-> Obj(class_local), params |-> Vec(params),
   fixed_arity |-> fixed_arity, body |-> Obj(body), is_variadic |-> FALSE,
   kwarg_support |-> "None",
   children |-> <<CLASS_LOCAL, PARAMS, BODY>>,
   top_level |-> FALSE, raw_forms |-> <<>>]

DefTypeProperty(name, this_local, params, body, span) ==
  [op |-> "deftype-property", form |-> "(property)", name |-> name,
   env |-> NodeEnv(span), this_local |-> Obj(this_local), params |-> Vec(params),
   body |-> Obj(body), children |-> <<THIS_LOCAL, PARAMS, BODY>>,
   top_level |-> FALSE, raw_forms |-> <<>>]

DefTypeStaticMethod(name, params, fixed_arity, body, span) ==
  [op |-> "deftype-staticmethod", form |-> "(staticmethod)", name |-> name,
   env |-> NodeEnv(span), params |-> Vec(params), fixed_arity |-> fixed_arity,
   body |-> Obj(body), is_variadic |-> FALSE, kwarg_support |-> "None",
   children |-> <<PARAMS, BODY>>, top_level |-> FALSE, raw_forms |-> <<>>]

DefType(name, fields, members, span) ==
  [op |-> "deftype", form |-> "(deftype)", name |-> name, interfaces |-> Vec(<<>>),
   fields |-> Vec(fields), members |-> Vec(members), env |-> NodeEnv(span),
   verified_abstract |-> FALSE, artificially_abstract |-> {}, is_frozen |-> TRUE,
   use_slots |-> TRUE, use_weakref_slot |-> TRUE, meta |-> None,
   children |-> <<FIELDS, MEMBERS>>, top_level |-> FALSE, raw_forms |-> <<>>]

Reify(members, span) ==
  [op |-> "reify", form |-> "(reify)", interfaces |-> Vec(<<>>),
   members |-> Vec(members), env |-> NodeEnv(span), verified_abstract |-> FALSE,
   artificially_abstract |-> {}, is_frozen |-> TRUE, use_weakref_slot |-> TRUE,
   meta |-> None, children |-> <<MEMBERS>>, top_level |-> FALSE, raw_forms |-> <<>>]

(***************************************************************************)
(* Node.assoc: attr.evolve builds a new instance of the same class from    *)
(* the instance's attributes, the given ones replaced.                     *)
(***************************************************************************)
assoc(self, kwargs) ==
  [a \in DOMAIN self |-> IF a \in DOMAIN kwargs THEN kwargs[a] ELSE self[a]]

(***************************************************************************)
(* Node.fix_missing_locations.  The result is Obj(new node), or Raise(e)   *)
(* with the first exception the call runs into.                            *)
(***************************************************************************)
HasLocation(env) ==
  ~(\/ env.line = NoneInt
    \/ env.col = NoneInt
    \/ env.end_line = NoneInt
    \/ env.end_col = NoneInt)

ResolveLoc_FormLocFirst(self, loc_arg) ==
  IF loc_arg.t # "None" THEN loc_arg ELSE Tuple(EnvSpan(self.env))

ResolveLoc(self, loc_arg) ==
  IF HasLocation(self.env) THEN Tuple(EnvSpan(self.env)) ELSE loc_arg

LocSpecified_NotNoneOnly(loc) == loc.t # "None"

LocSpecified(loc) == loc.t # "None" /\ \A i \in 1..Len(loc.v) : loc.v[i] # NoneInt

EvolveEnv_DropsPos(env, loc) ==
  [ns |-> env.ns, file |-> env.file,
   line |-> loc.v[1], col |-> loc.v[2], end_line |-> loc.v[3], end_col |-> loc.v[4],
   pos |-> "None", func_ctx |-> "None"]

EvolveEnv_KeepPresent(env, loc) ==
  [env EXCEPT !.line = IF @ = NoneInt THEN loc.v[1] ELSE @,
              !.col = IF @ = NoneInt THEN loc.v[2] ELSE @,
              !.end_line = IF @ = NoneInt THEN loc.v[3] ELSE @,
              !.end_col = IF @ = NoneInt THEN loc.v[4] ELSE @]

EvolveEnv(env, loc) ==
  [env EXCEPT !.line = loc.v[1], !.col = loc.v[2],
              !.end_line = loc.v[3], !.end_col = loc.v[4]]

ChildFormLoc(loc, loc_arg) == loc_arg

RECURSIVE fix_missing_locations(_, _)
RECURSIVE FixItems(_, _, _, _)
RECURSIVE FixItems_Reversed(_, _, _, _)
RECURSIVE FixChildren(_, _, _, _)

FixItems_Reversed(items, child_loc, i, acc) ==
  IF i > Len(items) THEN Vec(acc)
  ELSE LET r == fix_missing_locations(items[i], child_loc)
       IN IF r.t = "Raise" THEN r
          ELSE FixItems_Reversed(items, child_loc, i + 1, <<r.v>> \o acc)

FixItems(items, child_loc, i, acc) ==
  IF i > Len(items) THEN Vec(acc)
  ELSE LET r == fix_missing_locations(items[i], child_loc)
       IN IF r.t = "Raise" THEN r ELSE FixItems(items, child_loc, i + 1, Append(acc, r.v))

FixChildren(self, child_loc, i, new_attrs) ==
  IF i > Len(self.children) THEN Obj(assoc(self, new_attrs))
  ELSE
    LET child_attr == munge(self.children[i])
        attr_name == Str(child_attr)
    IN
    IF attr_name = "env" THEN Raise("AssertionError")
    ELSE IF attr_name \notin DOMAIN self THEN Raise("AttributeError")
    ELSE
      LET value == self[attr_name] IN
      IF endswith_s(child_attr) THEN
        IF value.t = "None" THEN Raise("AssertionError")
        ELSE IF value.t # "Vec" THEN Raise("TypeError")
        ELSE LET r == FixItems(value.v, child_loc, 1, <<>>)
             IN IF r.t = "Raise" THEN r
                ELSE FixChildren(self, child_loc, i + 1, (attr_name :> r) @@ new_attrs)
      ELSE
        IF value.t = "None" THEN Raise("AssertionError")
        ELSE IF value.t # "Node" THEN Raise("AttributeError")
        ELSE LET r == fix_missing_locations(value.v, child_loc)
             IN IF r.t = "Raise" THEN r
                ELSE FixChildren(self, child_loc, i + 1, (attr_name :> r) @@ new_attrs)

fix_missing_locations_RootOnly(self, loc_arg) ==
  LET loc == ResolveLoc(self, loc_arg) IN
  IF ~LocSpecified(loc) THEN Raise("AssertionError")
  ELSE Obj(assoc(self, "env" :> EvolveEnv(self.env, loc)))

fix_missing_locations(self, loc_arg) ==
  LET loc == ResolveLoc(self, loc_arg) IN
  IF ~LocSpecified(loc) THEN Raise("AssertionError")
  ELSE FixChildren(self, ChildFormLoc(loc, loc_arg), 1,
                   "env" :> EvolveEnv(self.env, loc))

(***************************************************************************)
(* Node.visit.  The result is the sequence of arguments f was called with  *)
(* before visit returned (None) or raised.                                 *)
(***************************************************************************)
RECURSIVE VisitChildren(_, _, _)
RECURSIVE VisitChildren_RawTagPlural(_, _, _)
RECURSIVE VisitChildren_SkipAbsent(_, _, _)

VisitChildren_RawTagPlural(self, i, called) ==
  IF i > Len(self.children) THEN [ret |-> None, calls |-> called]
  ELSE
    LET child_attr == munge(self.children[i])
        attr_name == Str(child_attr)
    IN
    IF attr_name \notin DOMAIN self
    THEN [ret |-> Raise("AttributeError"), calls |-> called]
    ELSE
      LET value == self[attr_name] IN
      IF endswith_s(self.children[i]) THEN
        IF value.t = "None" THEN [ret |-> Raise("AssertionError"), calls |-> called]
        ELSE IF value.t # "Vec" THEN [ret |-> Raise("TypeError"), calls |-> called]
        ELSE VisitChildren_RawTagPlural(self, i + 1,
                           called \o [k \in 1..Len(value.v) |-> Obj(value.v[k])])
      ELSE
        IF value.t = "None" THEN [ret |-> Raise("AssertionError"), calls |-> called]
        ELSE VisitChildren_RawTagPlural(self, i + 1, Append(called, value))

VisitChildren_SkipAbsent(self, i, called) ==
  IF i > Len(self.children) THEN [ret |-> None, calls |-> called]
  ELSE
    LET child_attr == munge(self.children[i])
        attr_name == Str(child_attr)
    IN
    IF attr_name \notin DOMAIN self
    THEN [ret |-> Raise("AttributeError"), calls |-> called]
    ELSE
      LET value == self[attr_name] IN
      IF endswith_s(child_attr) THEN
        IF value.t = "None" THEN VisitChildren_SkipAbsent(self, i + 1, called)
        ELSE IF value.t # "Vec" THEN [ret |-> Raise("TypeError"), calls |-> called]
        ELSE VisitChildren_SkipAbsent(self, i + 1,
                           called \o [k \in 1..Len(value.v) |-> Obj(value.v[k])])
      ELSE
        IF value.t = "None" THEN VisitChildren_SkipAbsent(self, i + 1, called)
        ELSE VisitChildren_SkipAbsent(self, i + 1, Append(called, value))

VisitChildren(self, i, called) ==
  IF i > Len(self.children) THEN [ret |-> None, calls |-> called]
  ELSE
    LET child_attr == munge(self.children[i])
        attr_name == Str(child_attr)
    IN
    IF attr_name \notin DOMAIN self
    THEN [ret |-> Raise("AttributeError"), calls |-> called]
    ELSE
      LET value == self[attr_name] IN
      IF endswith_s(child_attr) THEN
        IF value.t = "None" THEN [ret |-> Raise("AssertionError"), calls |-> called]
        ELSE IF value.t # "Vec" THEN [ret |-> Raise("TypeError"), calls |-> called]
        ELSE VisitChildren(self, i + 1,
                           called \o [k \in 1..Len(value.v) |-> Obj(value.v[k])])
      ELSE
        IF value.t = "None" THEN [ret |-> Raise("AssertionError"), calls |-> called]
        ELSE VisitChildren(self, i + 1, Append(called, value))

visit(self) == VisitChildren(self, 1, <<>>)

(***************************************************************************)
(* The derived Python names.                                               *)
(***************************************************************************)
DefTypeMember_python_name(self) == munge(self.name)

DefTypeMethodArity_python_name_NoRest(self) ==
  <<"_">> \o munge(self.name) \o <<"_","a","r","i","t","y">> \o IntToStr(self.fixed_arity)

DefTypeMethodArity_python_name(self) ==
  <<"_">> \o munge(self.name) \o <<"_","a","r","i","t","y">>
    \o (IF self.is_variadic THEN <<"_","r","e","s","t">> ELSE IntToStr(self.fixed_arity))

MemberNames_AnyArity(member) ==
  <<DefTypeMember_python_name(member)>> \o
    (IF member.op = "deftype-method" /\ Len(member.arities.v) > 0
     THEN [k \in 1..Len(member.arities.v) |->
             DefTypeMethodArity_python_name(member.arities.v[k])]
     ELSE <<>>)

MemberNames(member) ==
  <<DefTypeMember_python_name(member)>> \o
    (IF member.op = "deftype-method" /\ Len(member.arities.v) > 1
     THEN [k \in 1..Len(member.arities.v) |->
             DefTypeMethodArity_python_name(member.arities.v[k])]
     ELSE <<>>)

deftype_or_reify_python_member_names(members) ==
  Flatten([k \in 1..Len(members) |-> MemberNames(members[k])])

python_member_names(self) == deftype_or_reify_python_member_names(self.members.v)

(***************************************************************************)
(* Node.to_map: to_lisp(attr.asdict(self)).  Python values are tagged:     *)
(* Dict (str keys), List, Val (anything left as it is); Lisp values: Map   *)
(* (keyword keys), Vector.                                                 *)
(***************************************************************************)
\* The attributes annotated with a node type (Node, Optional[Node],
\* Iterable[Node] or a Node subclass).
NodeFields ==
  { "expr", "statements", "ret", "test", "then", "else_", "class_", "local", "body",
    "exception", "cause", "catches", "finally_", "init", "tag", "meta", "interfaces",
    "fields", "members", "arities", "params", "this_local", "class_local",
    "target" }

\* MaybeClass.class_ is a str and MaybeClass.target is Any, Binding.local and
\* Local.local are a LocalType; every other field of NodeFields is node-typed.
NodeFieldsOf(n) ==
  {a \in NodeFields \cap DOMAIN n :
     /\ ~(n.op = "maybe-class" /\ a \in {"class_", "target"})
     /\ ~(n.op \in {"binding", "local"} /\ a = "local")}

Val(x) == [t |-> "Val", v |-> x]

keyword(name) == ":" \o name

RECURSIVE asdict(_)
AsdictValue(value) ==
  CASE value.t = "Node" -> asdict(value.v)
    [] value.t = "Vec" ->
         [t |-> "List", v |-> [k \in 1..Len(value.v) |-> asdict(value.v[k])]]
    [] OTHER -> value

asdict(inst) ==
  [t |-> "Dict",
   v |-> [f \in DOMAIN inst |->
            IF f = "env"
            THEN [t |-> "Dict", v |-> [g \in DOMAIN inst.env |-> Val(inst.env[g])]]
            ELSE IF f \in NodeFieldsOf(inst) THEN AsdictValue(inst[f])
            ELSE Val(inst[f])]]

RECURSIVE to_lisp(_)
to_lisp(o) ==
  CASE o.t = "Dict" ->
         [t |-> "Map",
          v |-> [k \in {keyword(f) : f \in DOMAIN o.v} |->
                   to_lisp(o.v[CHOOSE f \in DOMAIN o.v : keyword(f) = k])]]
    [] o.t = "List" ->
         [t |-> "Vector", v |-> [k \in 1..Len(o.v) |-> to_lisp(o.v[k])]]
    [] OTHER -> o

to_map_WithoutToLisp(self) == asdict(self)

to_map(self) == to_lisp(asdict(self))

(***************************************************************************)
(* The node instances the operations are applied to: trees built with the  *)
(* constructors above, every node carrying one of Spans.                   *)
(***************************************************************************)
Consts == {Const(s) : s \in Spans}

Bindings ==
  {Binding(<<"x">>, "let", init, s) : init \in {None, Obj(Const(RootSpan))}, s \in Spans}

Yields ==
  {Yield(expr, YieldDefaultChildren, s) :
     expr \in {None} \cup {Obj(c) : c \in Consts}, s \in Spans}
  \cup {Yield_expressionless(s) : s \in Spans}

Throws ==
  {Throw(e, cause, s) :
     e \in Consts, cause \in {None, Obj(Const(RootSpan))}, s \in Spans}

\* A node as the analyzer places it in a syntactic position.
InPos(n, pos) == [n EXCEPT !.env.pos = pos]

\* A top-level do whose children differ in kind and position.
MixedDos ==
  {[Do(<<InPos(Const(a), "stmt"), InPos(Yield_expressionless(b), "stmt")>>,
       InPos(Const(InnerSpan), "expr"), s)
      EXCEPT !.top_level = TRUE, !.raw_forms = <<"(do)">>] :
     a \in {NoSpan, InnerSpan}, b \in {NoSpan, InnerSpan}, s \in {NoSpan, RootSpan}}

\* References: a host field of a constant, a local, a var.
Refs ==
  {HostField(<<"f">>, Const(t), s) : t \in {NoSpan, InnerSpan}, s \in Spans}
  \cup {Local(<<"x">>, "let", a, s) : a \in BOOLEAN, s \in {NoSpan, RootSpan}}
  \cup {VarRef("#'user/x", s) : s \in {NoSpan, RootSpan}}

Ifs ==
  {If(t, Const(InnerSpan), e, s) : t \in Consts, e \in Consts, s \in Spans}

FlatDos ==
  {Do(stmts, ret, s) : stmts \in SeqsUpTo(Consts, MaxItems), ret \in Consts, s \in Spans}

NestedDos ==
  {Do(<<>>, ret, s) : ret \in Yields \cup FlatDos, s \in {NoSpan, RootSpan}}

Bodies == {Do(<<>>, Const(RootSpan), s) : s \in {NoSpan, InnerSpan}}

Catches ==
  {Catch(MaybeClass(NoSpan), Binding(<<"e">>, "catch", None, NoSpan), b, InnerSpan) :
     b \in Bodies}

Tries ==
  {Try(b, cs, children, finally_, s) :
     b \in Bodies,
     cs \in SeqsUpTo(Catches, 1),
     children \in {<<BODY, CATCHES>>, <<BODY, CATCHES, FINALLY>>},
     finally_ \in {None} \cup {Obj(f) : f \in Bodies},
     s \in {NoSpan, RootSpan}}

(***************************************************************************)
(* deftype / reify nodes.  An arity is built as the analyzer builds it:    *)
(* it carries its method's name, one parameter per fixed position and one  *)
(* more when it is variadic.                                               *)
(***************************************************************************)
MemberNameChoices ==
  { <<"f","o","o">>, <<"_","f","o","o","_","a","r","i","t","y","1">>,
    <<"a","-","b">>, <<"a","_","b">> }

Param(k) == Binding(<<"p">> \o IntToStr(k), "arg", None, NoSpan)

ThisLocal == Binding(<<"t","h","i","s">>, "this", None, NoSpan)

MethodBody == Do(<<>>, Const(NoSpan), NoSpan)

ArityKinds == (1..MaxFixedArity) \X BOOLEAN

Arity(name, kind) ==
  DefTypeMethodArity(name,
                     [k \in 1..(kind[1] + (IF kind[2] THEN 1 ELSE 0)) |-> Param(k)],
                     kind[1], MethodBody, ThisLocal, kind[2], NoSpan)

MaxOf(S) == IF S = {} THEN 0 ELSE LET x == CHOOSE y \in S : \A z \in S : z <= y IN x

Method(name, kinds) ==
  DefTypeMethod(name,
                MaxOf({kinds[k][1] : k \in 1..Len(kinds)}),
                [k \in 1..Len(kinds) |-> Arity(name, kinds[k])],
                \E k \in 1..Len(kinds) : kinds[k][2],
                InnerSpan)

OtherMembers(name) ==
  { DefTypeClassMethod(name, ThisLocal, <<>>, 0, MethodBody, InnerSpan),
    DefTypeProperty(name, ThisLocal, <<>>, MethodBody, InnerSpan),
    DefTypeStaticMethod(name, <<>>, 0, MethodBody, InnerSpan) }

AllArityLists == SeqsUpTo(ArityKinds, MaxArities) \ {<<>>}

FewArityLists ==
  { <<<<1, FALSE>>>>, <<<<1, FALSE>>, <<2, FALSE>>>>,
    <<<<2, FALSE>>, <<1, FALSE>>, <<2, TRUE>>>> }

RichMembers ==
  {Method(name, kinds) : name \in {<<"f","o","o">>, <<"a","-","b">>}, kinds \in AllArityLists}

PlainMembers ==
  {Method(name, kinds) : name \in {<<"f","o","o">>, <<"a","-","b">>}, kinds \in FewArityLists}
  \cup UNION {OtherMembers(name) : name \in MemberNameChoices \ {<<"f","o","o">>}}

MemberLists ==
  {<<m>> : m \in RichMembers} \cup SeqsUpTo(PlainMembers, MaxMembers)

TypeDefs ==
  {DefType(<<"T">>, <<>>, ms, RootSpan) : ms \in MemberLists}
  \cup {Reify(ms, RootSpan) : ms \in SeqsUpTo(PlainMembers, 1)}

Trees == Consts \cup Bindings \cup Yields \cup Throws \cup Ifs \cup FlatDos
         \cup NestedDos \cup MixedDos \cup Refs \cup Catches \cup Tries

(***************************************************************************)
(* The state machine: a client holds a node and calls one operation on it. *)
(***************************************************************************)
Init ==
  /\ \/ node \in Trees /\ form_loc \in FormLocs
     \/ node \in TypeDefs /\ form_loc = None
  /\ pc = "ready"
  /\ result = None
  /\ calls = <<>>

FixMissingLocations_InPlace ==
  /\ pc = "ready"
  /\ result' = fix_missing_locations(node, form_loc)
  /\ node' = IF result'.t = "Node" THEN result'.v ELSE node
  /\ pc' = "fixed"
  /\ UNCHANGED <<form_loc, calls>>

FixMissingLocations ==
  /\ pc = "ready"
  /\ result' = fix_missing_locations(node, form_loc)
  /\ pc' = "fixed"
  /\ UNCHANGED <<node, form_loc, calls>>

Visit ==
  /\ pc = "ready"
  /\ LET r == visit(node)
     IN /\ result' = r.ret
        /\ calls' = r.calls
  /\ pc' = "visited"
  /\ UNCHANGED <<node, form_loc>>

PythonMemberNames ==
  /\ pc = "ready"
  /\ node.op \in {"deftype", "reify"}
  /\ result' = [t |-> "Names", v |-> python_member_names(node)]
  /\ pc' = "named"
  /\ UNCHANGED <<node, form_loc, calls>>

ToMap ==
  /\ pc = "ready"
  /\ result' = to_map(node)
  /\ pc' = "mapped"
  /\ UNCHANGED <<node, form_loc, calls>>

\* attr.evolve passes every change to the class's __init__, which raises
\* TypeError for a keyword that names no attribute.
AssocKwargs ==
  { "top_level" :> TRUE, "no_such_attribute" :> TRUE }

Assoc ==
  /\ pc = "ready"
  /\ \E kwargs \in AssocKwargs :
       result' = IF DOMAIN kwargs \subseteq DOMAIN node
                 THEN Obj(assoc(node, kwargs))
                 ELSE Raise("TypeError")
  /\ pc' = "assoc"
  /\ UNCHANGED <<node, form_loc, calls>>

Next == FixMissingLocations \/ Visit \/ PythonMemberNames \/ Assoc \/ ToMap

Spec == Init /\ [][Next]_vars

(***************************************************************************)
(* Vocabulary of the properties below, stated on the node data alone.      *)
(***************************************************************************)
FullSpan(span) == \A i \in 1..4 : span[i] # NoneInt

Slot(n, tag) == n[Str(munge(tag))]

Declared(n, tag) == Str(munge(tag)) \in DOMAIN n

\* Every role-tag of n names an attribute that holds a node or a vector.
WellFormed(n) ==
  \A k \in 1..Len(n.children) :
    Declared(n, n.children[k]) /\ Slot(n, n.children[k]).t \in {"Node", "Vec"}

SlotItems(n, tag) ==
  IF Slot(n, tag).t = "Vec" THEN Slot(n, tag).v ELSE <<Slot(n, tag).v>>

\* The immediate children of a well-formed node, in role-tag order.
Children(n) == Flatten([k \in 1..Len(n.children) |-> SlotItems(n, n.children[k])])

RECURSIVE FullySpanned(_)
FullySpanned(n) ==
  /\ FullSpan(EnvSpan(n.env))
  /\ WellFormed(n)
  /\ \A k \in 1..Len(Children(n)) : FullySpanned(Children(n)[k])

Fixed == pc = "fixed"
Returned == result.t = "Node"
Raised == result.t = "Raise"

(***************************************************************************)
(* C1: fix_missing_locations repairs every child with its parent's         *)
(* resolved span: a child without a full span under a parent whose own     *)
(* span is full ends with the parent's span, whatever fallback was passed  *)
(* to the parent.                                                          *)
(***************************************************************************)
C1_ChildRepairedWithParentSpan ==
  (Fixed /\ WellFormed(node) /\ FullSpan(EnvSpan(node.env))) =>
    \A k \in 1..Len(Children(node)) :
      ~FullSpan(EnvSpan(Children(node)[k].env)) =>
        /\ Returned
        /\ EnvSpan(Children(result.v)[k].env) = EnvSpan(node.env)

C3_FailsWithoutLocation ==
  (/\ Fixed
   /\ ~FullSpan(EnvSpan(node.env))
   /\ (form_loc = None \/ ~FullSpan(form_loc.v))) => Raised

C3_Witness ==
  /\ Fixed
  /\ EnvSpan(node.env) = PartialSpan
  /\ form_loc = Tuple(PartialLoc)
  /\ result = Raise("AssertionError")

SlotSize(n, k) == Len(SlotItems(n, n.children[k]))

RECURSIVE CallsBefore(_, _)
CallsBefore(n, k) == IF k = 1 THEN 0 ELSE CallsBefore(n, k - 1) + SlotSize(n, k - 1)

C5_VisitCallsChildrenInOrder ==
  (pc = "visited" /\ WellFormed(node)) =>
    /\ result = None
    /\ Len(calls) = CallsBefore(node, Len(node.children) + 1)
    /\ \A k \in 1..Len(node.children) :
         \A j \in 1..SlotSize(node, k) :
           calls[CallsBefore(node, k) + j] = Obj(SlotItems(node, node.children[k])[j])

C5_Witness ==
  /\ pc = "visited"
  /\ node.op = "do"
  /\ Len(node.statements.v) = 2
  /\ node.statements.v[1] # node.statements.v[2]
  /\ calls = <<Obj(node.statements.v[1]), Obj(node.statements.v[2]), node.ret>>

(***************************************************************************)
(* C6: visit and fix_missing_locations raise, and do not skip, when a      *)
(* role-tag listed in children names a field whose value is absent.        *)
(***************************************************************************)
DeclaredAbsent(n) ==
  \E k \in 1..Len(n.children) :
    Declared(n, n.children[k]) /\ Slot(n, n.children[k]) = None

C6_AbsentChildFailsLoudly ==
  (pc \in {"visited", "fixed"} /\ DeclaredAbsent(node)) => Raised

C6_Witness ==
  /\ pc = "visited"
  /\ node.op = "try"
  /\ node.children = <<BODY, CATCHES, FINALLY>>
  /\ node.finally_ = None
  /\ Len(node.catches.v) = 1
  /\ calls = <<node.body, Obj(node.catches.v[1])>>
  /\ result = Raise("AssertionError")

(***************************************************************************)
(* C7: python_member_names yields, for each member in declaration order,   *)
(* the member's derived name, followed immediately, for a method with more *)
(* than one arity, by the derived name of each arity in declaration order; *)
(* nothing else is yielded.                                                *)
(***************************************************************************)
Named == pc = "named"

IsMultiArity(m) == m.op = "deftype-method" /\ Len(m.arities.v) > 1

Yielded(m) == 1 + (IF IsMultiArity(m) THEN Len(m.arities.v) ELSE 0)

RECURSIVE FirstIndex(_, _)
FirstIndex(ms, k) == IF k = 1 THEN 1 ELSE FirstIndex(ms, k - 1) + Yielded(ms[k - 1])

ArityNameOf(method, a) ==
  <<"_">> \o munge(method.name) \o <<"_","a","r","i","t","y">>
    \o (IF a.is_variadic THEN <<"_","r","e","s","t">> ELSE IntToStr(a.fixed_arity))

C7_MemberNamesInDeclarationOrder ==
  Named =>
    LET ms == node.members.v
        names == result.v
    IN /\ Len(names) = FirstIndex(ms, Len(ms) + 1) - 1
       /\ \A k \in 1..Len(ms) :
            /\ names[FirstIndex(ms, k)] = munge(ms[k].name)
            /\ IsMultiArity(ms[k]) =>
                 \A j \in 1..Len(ms[k].arities.v) :
                   names[FirstIndex(ms, k) + j] = ArityNameOf(ms[k], ms[k].arities.v[j])

C7_Witness ==
  /\ Named
  /\ Len(node.members.v) = 2
  /\ node.members.v[1].op = "deftype-method"
  /\ Len(node.members.v[1].arities.v) = 1
  /\ node.members.v[1].name = <<"a","-","b">>
  /\ node.members.v[2].op = "deftype-method"
  /\ node.members.v[2].name = <<"f","o","o">>
  /\ Len(node.members.v[2].arities.v) = 3
  /\ result.v = << <<"a","_","b">>, <<"f","o","o">>,
                   <<"_","f","o","o","_","a","r","i","t","y","2">>,
                   <<"_","f","o","o","_","a","r","i","t","y","1">>,
                   <<"_","f","o","o","_","a","r","i","t","y","_","r","e","s","t">> >>

(***************************************************************************)
(* C8: within one multi-arity method whose fixed arities have pairwise     *)
(* distinct counts and which has at most one variadic arity, the names of  *)
(* the arities are pairwise distinct and none equals the dispatcher name.  *)
(***************************************************************************)
DistinctArities(m) ==
  \A i, j \in 1..Len(m.arities.v) :
    i # j =>
      LET a == m.arities.v[i]
          b == m.arities.v[j]
      IN /\ ~(a.is_variadic /\ b.is_variadic)
         /\ (~a.is_variadic /\ ~b.is_variadic) => a.fixed_arity # b.fixed_arity

C8_ArityNamesDistinct ==
  Named =>
    LET ms == node.members.v
        names == result.v
    IN \A k \in 1..Len(ms) :
         (IsMultiArity(ms[k]) /\ DistinctArities(ms[k])) =>
           LET first == FirstIndex(ms, k)
               n == Len(ms[k].arities.v)
           IN /\ \A i, j \in 1..n : i # j => names[first + i] # names[first + j]
              /\ \A i \in 1..n : names[first + i] # names[first]

C8_Witness ==
  /\ Named
  /\ Len(node.members.v) = 1
  /\ node.members.v[1].op = "deftype-method"
  /\ node.members.v[1].name = <<"f","o","o">>
  /\ Len(node.members.v[1].arities.v) = 3
  /\ DistinctArities(node.members.v[1])
  /\ result.v = << <<"f","o","o">>,
                   <<"_","f","o","o","_","a","r","i","t","y","1">>,
                   <<"_","f","o","o","_","a","r","i","t","y","2">>,
                   <<"_","f","o","o","_","a","r","i","t","y","_","r","e","s","t">> >>

(***************************************************************************)
(* C9: when the members of one deftype / reify have pairwise distinct      *)
(* declared names that stay distinct after munging, python_member_names    *)
(* yields no name twice.                                                   *)
(***************************************************************************)
DistinctMembers(ms) ==
  \A i, j \in 1..Len(ms) :
    i # j => ms[i].name # ms[j].name /\ munge(ms[i].name) # munge(ms[j].name)

C9_NoCollisionAcrossMembers ==
  (/\ Named
   /\ DistinctMembers(node.members.v)
   /\ \A k \in 1..Len(node.members.v) :
        IsMultiArity(node.members.v[k]) => DistinctArities(node.members.v[k])) =>
    \A i, j \in 1..Len(result.v) : i # j => result.v[i] # result.v[j]

(***************************************************************************)
(* C10: for every node instance the fields named by children are exactly   *)
(* the fields that hold child nodes: no field named in children is absent  *)
(* and no field holding a node (or a non-empty sequence of nodes) is left  *)
(* out of children.                                                        *)
(***************************************************************************)
HoldsChildren(value) ==
  value.t = "Node" \/ (value.t = "Vec" /\ value.v # <<>>)

NamedByChildren(n) == {Str(munge(n.children[k])) : k \in 1..Len(n.children)}

ChildrenMatchFields(n) ==
  /\ \A a \in NamedByChildren(n) : a \in DOMAIN n /\ n[a] # None
  /\ \A a \in NodeFieldsOf(n) : HoldsChildren(n[a]) => a \in NamedByChildren(n)

C10_ChildrenMatchFields == ChildrenMatchFields(node)

SpanFields == {"line", "col", "end_line", "end_col"}

SameEnvExceptSpan(e1, e2) ==
  /\ DOMAIN e1 = DOMAIN e2
  /\ \A f \in DOMAIN e1 \ SpanFields : e1[f] = e2[f]

ChildSlots(n) == {Str(munge(n.children[k])) : k \in 1..Len(n.children)}

RECURSIVE SameExceptSpans(_, _)
SameExceptSpans(a, b) ==
  /\ DOMAIN a = DOMAIN b
  /\ SameEnvExceptSpan(a.env, b.env)
  /\ \A f \in DOMAIN a \ ({"env"} \cup ChildSlots(a)) : a[f] = b[f]
  /\ \A f \in ChildSlots(a) :
       /\ a[f].t = b[f].t
       /\ IF a[f].t = "Vec"
          THEN /\ Len(a[f].v) = Len(b[f].v)
               /\ \A k \in 1..Len(a[f].v) : SameExceptSpans(a[f].v[k], b[f].v[k])
          ELSE SameExceptSpans(a[f].v, b[f].v)

C12_OnlySpansChange == (Fixed /\ Returned) => SameExceptSpans(node, result.v)

C12_Witness ==
  /\ Fixed /\ Returned
  /\ node \in MixedDos
  /\ result.v # node
  /\ result.v.statements.v[1].op = "const"
  /\ result.v.statements.v[2].op = "yield"
  /\ result.v.statements.v[1].env.pos = "stmt"
  /\ result.v.ret.v.env.pos = "expr"
  /\ result.v.top_level

RECURSIVE MapsEveryField(_, _)
MapsEveryField(n, m) ==
  /\ m.t = "Map"
  /\ \A f \in DOMAIN n : keyword(f) \in DOMAIN m.v
  /\ \A f \in NodeFieldsOf(n) :
       LET sub == m.v[keyword(f)] IN
       CASE n[f].t = "Node" -> MapsEveryField(n[f].v, sub)
         [] n[f].t = "Vec" ->
              /\ sub.t = "Vector"
              /\ Len(sub.v) = Len(n[f].v)
              /\ \A k \in 1..Len(n[f].v) : MapsEveryField(n[f].v[k], sub.v[k])
         [] OTHER -> sub = None

Mapped == pc = "mapped"

AssignableKinds == {"host-field", "var", "local", "binding"}

RECURSIVE SubNodes(_)
SubNodes(n) ==
  {n} \cup UNION { IF n[f].t = "Node" THEN SubNodes(n[f].v)
                   ELSE IF n[f].t = "Vec"
                   THEN UNION {SubNodes(n[f].v[k]) : k \in 1..Len(n[f].v)}
                   ELSE {} : f \in NodeFieldsOf(n) }

C15_ExactlyFourKindsAssignable ==
  /\ \A op \in NodeKinds : ("is_assignable" \in Attributes(op)) <=> (op \in AssignableKinds)
  /\ \A n \in SubNodes(node) :
       /\ DOMAIN n = Attributes(n.op)
       /\ ("is_assignable" \in DOMAIN n) <=> (n.op \in AssignableKinds)
       /\ n.op \in AssignableKinds => n.is_assignable \in BOOLEAN

C15_Witness ==
  /\ node.op = "host-field" /\ node.is_assignable
  /\ "is_assignable" \notin DOMAIN node.target.v
  /\ Mapped
  /\ keyword("is_assignable") \in DOMAIN result.v
  /\ keyword("is_assignable") \notin DOMAIN result.v[keyword("target")].v

(***************************************************************************)
(* C16: whenever fix_missing_locations returns a tree, every node of the   *)
(* result reachable from the root through children slots has all four     *)
(* span coordinates present.                                               *)
(***************************************************************************)
C16_ResultFullySpanned == (Fixed /\ Returned) => FullySpanned(result.v)

C16_Witness ==
  /\ Fixed /\ Returned
  /\ WellFormed(node)
  /\ \E k \in 1..Len(Children(node)) : ~FullSpan(EnvSpan(Children(node)[k].env))
  /\ \A k \in 1..Len(Children(result.v)) : FullSpan(EnvSpan(Children(result.v)[k].env))

====
